---- MODULE Spec2Model ----
(***************************************************************************)
(* A model of hdc::ringbuffer::RingBuffer: a fixed-capacity circular byte  *)
(* buffer over caller-supplied memory, with two cursors (_read, _write)    *)
(* and the sentinels _read = _size (empty) and _write = _size (full).      *)
(*                                                                         *)
(* Arrays (the backing buffer, a source, a destination) are functions on   *)
(* 0..n-1.  std::size_t is modelled as an unsigned integer of SizeTBits    *)
(* bits; every subtraction and addition of the code wraps modulo 2^bits.   *)
(***************************************************************************)
EXTENDS Integers, Sequences, FiniteSets, TLC

(* ------------------------------ bounds --------------------------------- *)

\* Capacities 1..MaxSize are explored.
MaxSize == 3

\* Requested counts and offsets range over 0..(_size + ExtraCount), as the
\* tests' loops range over 0..BUFFER_SIZE + EXTRA_BUFFER_SIZE.
ExtraCount == 1

\* FifoSpec logs at most this many accepted bytes; the stream of LiveSpec
\* has this many bytes.
MaxTotal == 6

\* ConcSpec: the two concurrent callers make at most this many calls.
MaxCalls == 3

(* ----------------------------- constants ------------------------------- *)

\* Width of std::size_t in the model.
SizeTBits == 16

SizeT == 2 ^ SizeTBits

\* Byte values the writer offers: a counter modulo NumBytes (the tests fill
\* their source with std::iota).  More values than any buffer can hold, so
\* that the queued bytes are pairwise distinct.
NumBytes == MaxSize + 1

\* What the caller's memory holds before anything is written to it.
Stale == NumBytes

\* What a destination holds before a call (the tests fill it with -1).
DestFill == -1

\* The value recorded for a call that never returned.
NoReturn == 0 - 1

Sizes == 1 .. MaxSize

Counts(sz) == 0 .. (sz + ExtraCount)

(* ------------------------------ helpers -------------------------------- *)

\* std::min on std::size_t.
Min(a, b) == IF a < b THEN a ELSE b

\* Unsigned subtraction and addition on std::size_t.
USub(a, b) == (a - b) % SizeT

UAdd(a, b) == (a + b) % SizeT

\* The unsigned a - b wraps around: its mathematical value is negative.
Wraps(a, b) == a < b

\* One contiguous span of a transfer: n bytes at index at of the backing
\* array and at offset off of the caller's source or destination.
Span(at, off, n) == [at |-> at, off |-> off, n |-> n]

\* std::memcpy(dst + d, src + s, n) on arrays indexed from 0.  Positions
\* outside dst are outside the model; OutOfBounds tells when a copy has any.
Memcpy(dst, d, src, s, n) ==
    [i \in DOMAIN dst |->
        IF i >= d /\ i < d + n /\ (s + (i - d)) \in DOMAIN src
        THEN src[s + (i - d)]
        ELSE dst[i]]

\* Whether copying n bytes at offset d of an array of len bytes leaves it.
OutOfBounds(len, d, n) == n > 0 /\ d + n > len

\* The first n elements of array a, as a sequence (all of it when n is
\* larger).
Prefix(a, n) ==
    LET len == Cardinality(DOMAIN a)
        m   == IF n < 0 THEN 0 ELSE Min(n, len)
    IN [i \in 1 .. m |-> a[i - 1]]

\* Sequence s without its first n elements.
Drop(s, n) ==
    IF n <= 0 THEN s
    ELSE IF n >= Len(s) THEN << >>
    ELSE SubSeq(s, n + 1, Len(s))

\* The first n elements of sequence s.
Take(s, n) ==
    IF n <= 0 THEN << >>
    ELSE IF n >= Len(s) THEN s
    ELSE SubSeq(s, 1, n)

IsPrefixOf(s, t) == Len(s) <= Len(t) /\ s = Take(t, Len(s))

(* --------------------------- state queries ----------------------------- *)
\* rb is a record [size, read, write, buffer]: the object's fields.

\* _assertValid(): the three cursor assertions (the buffer pointer and the
\* size are fixed at construction).
AssertValid(rb) ==
    /\ rb.size > 0
    /\ (rb.read < rb.size \/ (rb.read = rb.size /\ rb.write = 0))
    /\ rb.write <= rb.size
    /\ rb.read # rb.write

isEmpty(rb) == rb.read = rb.size

isFull(rb) == rb.write = rb.size

\* Mutant: the case _read > _write is not told apart.
getReadableByteCount_NoWrapCase(rb) ==
    IF isFull(rb) THEN rb.size
    ELSE USub(rb.write, rb.read)

getReadableByteCount(rb) ==
    IF isFull(rb) THEN rb.size
    ELSE IF rb.read > rb.write THEN USub(UAdd(rb.write, rb.size), rb.read)
    ELSE USub(rb.write, rb.read)

\* Mutant: the full case is not tested first.
getWritableByteCount_NoFullCase(rb) ==
    IF rb.read < rb.write THEN USub(UAdd(rb.read, rb.size), rb.write)
    ELSE USub(rb.read, rb.write)

getWritableByteCount(rb) ==
    IF isFull(rb) THEN 0
    ELSE IF rb.read < rb.write THEN USub(UAdd(rb.read, rb.size), rb.write)
    ELSE USub(rb.read, rb.write)

(* ------------------------------ writeBytes ----------------------------- *)
\* A write frame is the object's fields plus the locals of writeBytes:
\* [size, read, write, buffer, source, spos, count, oob, spans, uf].  spos is
\* how far the source pointer has been advanced, spans the spans the
\* branches have handled, and uf tells that an unsigned subtraction has
\* wrapped around or a cursor has been advanced past _size.

\* Mutant: the write cursor is not wrapped at the end of the array.
WriteFirst_NoWrap(f) ==
    IF f.read < f.write
    THEN LET n == Min(f.count, USub(f.size, f.write))
             w == UAdd(f.write, n)
         IN [f EXCEPT
                !.buffer = Memcpy(f.buffer, f.write, f.source, f.spos, n),
                !.oob    = f.oob \/ OutOfBounds(f.size, f.write, n),
                !.count  = USub(f.count, n),
                !.write  = w,
                !.spos   = f.spos + n]
    ELSE f

\* First branch: _read < _write, fill up to the end of the array and wrap.
WriteFirst(f) ==
    IF f.read < f.write
    THEN LET n == Min(f.count, USub(f.size, f.write))
             w == UAdd(f.write, n)
         IN [f EXCEPT
                !.buffer = Memcpy(f.buffer, f.write, f.source, f.spos, n),
                !.oob    = f.oob \/ OutOfBounds(f.size, f.write, n),
                !.count  = USub(f.count, n),
                !.write  = IF w = f.size /\ f.read > 0 THEN 0 ELSE w,
                !.spos   = f.spos + n,
                !.spans  = Append(f.spans, Span(f.write, f.spos, n)),
                !.uf     = f.uf \/ Wraps(f.size, f.write) \/ Wraps(f.count, n)
                                \/ w > f.size]
    ELSE f

\* Mutant: reaching the read location does not mark the buffer full.
WriteSecond_NoFullMark(f) ==
    IF f.read > f.write
    THEN LET n == Min(f.count, USub(f.read, f.write))
             w == UAdd(f.write, n)
         IN [f EXCEPT
                !.buffer = Memcpy(f.buffer, f.write, f.source, f.spos, n),
                !.oob    = f.oob \/ OutOfBounds(f.size, f.write, n),
                !.write  = w,
                !.count  = USub(f.count, n),
                !.read   = IF f.read = f.size THEN 0 ELSE f.read]
    ELSE f

\* Mutant: a write into an empty buffer leaves _read on the sentinel.
WriteSecond_KeepRead(f) ==
    IF f.read > f.write
    THEN LET n == Min(f.count, USub(f.read, f.write))
             w == UAdd(f.write, n)
         IN [f EXCEPT
                !.buffer = Memcpy(f.buffer, f.write, f.source, f.spos, n),
                !.oob    = f.oob \/ OutOfBounds(f.size, f.write, n),
                !.write  = IF w = f.read THEN f.size ELSE w,
                !.count  = USub(f.count, n)]
    ELSE f

\* Mutant: the copy is limited by the end of the array, not by the read
\* location.
WriteSecond_NoReadLimit(f) ==
    IF f.read > f.write
    THEN LET n == Min(f.count, USub(f.size, f.write))
             w == UAdd(f.write, n)
         IN [f EXCEPT
                !.buffer = Memcpy(f.buffer, f.write, f.source, f.spos, n),
                !.oob    = f.oob \/ OutOfBounds(f.size, f.write, n),
                !.write  = IF w >= f.read THEN f.size ELSE w,
                !.count  = USub(f.count, n),
                !.read   = IF f.read = f.size THEN 0 ELSE f.read]
    ELSE f

\* Second branch: _read > _write, fill up to the read location; mark full,
\* and move _read off the empty sentinel.
WriteSecond(f) ==
    IF f.read > f.write
    THEN LET n == Min(f.count, USub(f.read, f.write))
             w == UAdd(f.write, n)
         IN [f EXCEPT
                !.buffer = Memcpy(f.buffer, f.write, f.source, f.spos, n),
                !.oob    = f.oob \/ OutOfBounds(f.size, f.write, n),
                !.write  = IF w = f.read THEN f.size ELSE w,
                !.count  = USub(f.count, n),
                !.read   = IF f.read = f.size THEN 0 ELSE f.read,
                !.spans  = Append(f.spans, Span(f.write, f.spos, n)),
                !.uf     = f.uf \/ Wraps(f.read, f.write) \/ Wraps(f.count, n)
                                \/ w > f.size]
    ELSE f

\* return bytes_written: what write frame f hands back for a request of
\* count bytes.
WriteResult(f, count) ==
    [read |-> f.read, write |-> f.write, buffer |-> f.buffer,
     ret |-> USub(count, f.count), oob |-> f.oob, spans |-> f.spans,
     uf |-> f.uf \/ Wraps(count, f.count)]

\* The write frame of a call on object rb that has passed the early return.
WriteFrame(rb, source, count) ==
    [size |-> rb.size, read |-> rb.read, write |-> rb.write,
     buffer |-> rb.buffer, source |-> source, spos |-> 0, count |-> count,
     oob |-> FALSE, spans |-> << >>, uf |-> FALSE]

\* writeBytes(source, count): the fields after the call, the value returned
\* and whether a copy left the backing array.
writeBytes(rb, source, count) ==
    IF count = 0 \/ isFull(rb)
    THEN [read |-> rb.read, write |-> rb.write, buffer |-> rb.buffer,
          ret |-> 0, oob |-> FALSE, spans |-> << >>, uf |-> FALSE]
    ELSE WriteResult(WriteSecond(WriteFirst(WriteFrame(rb, source, count))),
                     count)

(* ------------------------------ _readBytes ----------------------------- *)
\* A read frame is the arguments and locals of _readBytes:
\* [size, buffer, read, write, count, dest, dnull, dpos, ub, fault, oob,
\* spans, uf].
\* dnull tells that destination was passed as nullptr, dpos how far the
\* pointer has been advanced.  Advancing a null pointer by n > 0 is undefined
\* behaviour: the pointer then compares unequal to nullptr in some builds
\* (ub = TRUE: the next copy of at least one byte goes to the address n and
\* the process faults) and equal in others (ub = FALSE: the copy is skipped).

\* destination != nullptr
DestNonNull(f) ==
    IF ~f.dnull THEN TRUE
    ELSE IF f.dpos = 0 THEN FALSE
    ELSE f.ub

\* Mutant: the copy goes from the destination into the backing array.
ReadCopy_Swapped(f, n) ==
    IF ~DestNonNull(f) THEN f
    ELSE IF f.dnull
    THEN [f EXCEPT !.fault = (n > 0)]
    ELSE [f EXCEPT
            !.buffer = Memcpy(f.buffer, f.read, f.dest, f.dpos, n),
            !.oob    = f.oob \/ OutOfBounds(f.size, f.read, n)
                             \/ OutOfBounds(Cardinality(DOMAIN f.dest), f.dpos, n)]

\* if (destination != nullptr) memcpy(destination, _buffer + read, n)
ReadCopy(f, n) ==
    IF ~DestNonNull(f) THEN f
    ELSE IF f.dnull
    THEN [f EXCEPT !.fault = (n > 0)]
    ELSE [f EXCEPT
            !.dest = Memcpy(f.dest, f.dpos, f.buffer, f.read, n),
            !.oob  = f.oob \/ OutOfBounds(f.size, f.read, n)
                           \/ OutOfBounds(Cardinality(DOMAIN f.dest), f.dpos, n)]

\* Mutant: read wraps at the end of the array whatever write is.
ReadFirst_WrapAlways(f) ==
    IF f.read > f.write \/ f.write = f.size
    THEN LET wr == IF f.write = f.size THEN f.read ELSE f.write
             n  == Min(f.count, USub(f.size, f.read))
             c  == ReadCopy([f EXCEPT !.write = wr], n)
             rd == UAdd(f.read, n)
         IN IF c.fault THEN c
            ELSE [c EXCEPT
                    !.count = USub(f.count, n),
                    !.read  = IF rd = f.size THEN 0 ELSE rd,
                    !.dpos  = f.dpos + n,
                    !.spans = Append(f.spans, Span(f.read, f.dpos, n))]
    ELSE f

\* Mutant: the destination pointer is not advanced past the first copy.
ReadFirst_NoDestAdvance(f) ==
    IF f.read > f.write \/ f.write = f.size
    THEN LET wr == IF f.write = f.size THEN f.read ELSE f.write
             n  == Min(f.count, USub(f.size, f.read))
             c  == ReadCopy([f EXCEPT !.write = wr], n)
             rd == UAdd(f.read, n)
         IN IF c.fault THEN c
            ELSE [c EXCEPT
                    !.count = USub(f.count, n),
                    !.read  = IF rd = f.size /\ wr > 0 THEN 0 ELSE rd]
    ELSE f

\* First branch: read > write or full; drain up to the end of the array and
\* wrap.
ReadFirst(f) ==
    IF f.read > f.write \/ f.write = f.size
    THEN LET wr == IF f.write = f.size THEN f.read ELSE f.write
             n  == Min(f.count, USub(f.size, f.read))
             c  == ReadCopy([f EXCEPT !.write = wr], n)
             rd == UAdd(f.read, n)
         IN IF c.fault THEN c
            ELSE [c EXCEPT
                    !.count = USub(f.count, n),
                    !.read  = IF rd = f.size /\ wr > 0 THEN 0 ELSE rd,
                    !.dpos  = f.dpos + n,
                    !.spans = Append(f.spans, Span(f.read, f.dpos, n)),
                    !.uf    = f.uf \/ Wraps(f.size, f.read)
                                   \/ Wraps(f.count, n) \/ rd > f.size]
    ELSE f

\* Mutant: the second branch does not encode empty when it has drained the
\* last byte.
ReadSecond_NoEmptyMark(f) ==
    IF ~f.fault /\ f.read < f.write
    THEN LET n  == Min(f.count, USub(f.write, f.read))
             c  == ReadCopy(f, n)
             rd == UAdd(f.read, n)
         IN IF c.fault THEN c
            ELSE [c EXCEPT
                    !.count = USub(f.count, n),
                    !.read  = rd]
    ELSE f

\* Mutant: taking the last byte moves read to the sentinel and leaves write.
ReadSecond_KeepWrite(f) ==
    IF ~f.fault /\ f.read < f.write
    THEN LET n  == Min(f.count, USub(f.write, f.read))
             c  == ReadCopy(f, n)
             rd == UAdd(f.read, n)
         IN IF c.fault THEN c
            ELSE [c EXCEPT
                    !.count = USub(f.count, n),
                    !.read  = IF rd = f.write THEN f.size ELSE rd]
    ELSE f

\* Mutant: the second branch copies count bytes, not the n that are there.
ReadSecond_CopyCount(f) ==
    IF ~f.fault /\ f.read < f.write
    THEN LET n  == Min(f.count, USub(f.write, f.read))
             c  == ReadCopy(f, f.count)
             rd == UAdd(f.read, n)
         IN IF c.fault THEN c
            ELSE [c EXCEPT
                    !.count = USub(f.count, n),
                    !.read  = IF rd = f.write THEN f.size ELSE rd,
                    !.write = IF rd = f.write THEN 0 ELSE f.write]
    ELSE f

\* Second branch: read < write; drain up to the write location and encode
\* empty.
ReadSecond(f) ==
    IF ~f.fault /\ f.read < f.write
    THEN LET n  == Min(f.count, USub(f.write, f.read))
             c  == ReadCopy(f, n)
             rd == UAdd(f.read, n)
         IN IF c.fault THEN c
            ELSE [c EXCEPT
                    !.count = USub(f.count, n),
                    !.read  = IF rd = f.write THEN f.size ELSE rd,
                    !.write = IF rd = f.write THEN 0 ELSE f.write,
                    !.spans = Append(f.spans, Span(f.read, f.dpos, n)),
                    !.uf    = f.uf \/ Wraps(f.write, f.read)
                                   \/ Wraps(f.count, n) \/ rd > f.size]
    ELSE f

\* return bytes_read: what read frame f hands back for a request of count
\* bytes; nothing when the call has faulted.
ReadResult(f, count) ==
    [read |-> f.read, write |-> f.write, buffer |-> f.buffer, dest |-> f.dest,
     ret |-> IF f.fault THEN NoReturn ELSE USub(count, f.count),
     fault |-> f.fault, oob |-> f.oob, spans |-> f.spans,
     uf |-> f.uf \/ Wraps(count, f.count)]

\* The read frame of a call on object rb that has passed the early return.
ReadFrame(rb, dest, dnull, count, read, write, ub) ==
    [size |-> rb.size, buffer |-> rb.buffer, read |-> read, write |-> write,
     count |-> count, dest |-> dest, dnull |-> dnull, dpos |-> 0, ub |-> ub,
     fault |-> FALSE, oob |-> FALSE, spans |-> << >>, uf |-> FALSE]

\* _readBytes(destination, count, read, write) on object rb: the cursor pair
\* after the call, the backing array, the destination, the value returned,
\* and whether the call faulted.  The early exit tests isEmpty() on the object's own cursors.
ReadBytesPrim(rb, dest, dnull, count, read, write, ub) ==
    IF count = 0 \/ isEmpty(rb)
    THEN [read |-> read, write |-> write, buffer |-> rb.buffer, dest |-> dest,
          ret |-> 0, fault |-> FALSE, oob |-> FALSE, spans |-> << >>,
          uf |-> FALSE]
    ELSE ReadResult(
             ReadSecond(ReadFirst(
                 ReadFrame(rb, dest, dnull, count, read, write, ub))),
             count)

(* ------------------------- the public methods -------------------------- *)
\* Each method yields [live, scratch, buffer, dest, ret, fault, oob, passes,
\* uf]: the object's cursors after the call, the cursor copies a peek worked
\* on, the backing array, the destination, the value returned, whether the
\* call faulted, whether a copy left an array, the spans of each pass of
\* _readBytes, and whether an unsigned subtraction wrapped around.

\* A destination of count bytes, as the caller hands it over.
FreshDest(count) == [i \in 0 .. (count - 1) |-> DestFill]

\* No destination: nullptr.
NullDest == [i \in {} |-> DestFill]

NoPeek == [read |-> 0, write |-> 0]

Cursors(r) == [read |-> r.read, write |-> r.write]

\* _readBytes was handed the object's own cursors: its result r is the
\* method's.
OnLive(r) ==
    [live |-> Cursors(r), scratch |-> NoPeek, buffer |-> r.buffer,
     dest |-> r.dest, ret |-> r.ret, fault |-> r.fault, oob |-> r.oob,
     passes |-> <<r.spans>>, uf |-> r.uf]

\* _readBytes was handed copies of the cursors of rb: the object keeps its
\* own.
OnCopies(rb, r) ==
    [live |-> Cursors(rb), scratch |-> Cursors(r), buffer |-> r.buffer,
     dest |-> r.dest, ret |-> r.ret, fault |-> r.fault, oob |-> r.oob,
     passes |-> <<r.spans>>, uf |-> r.uf]

\* readBytes(destination, count): _readBytes on the live cursors.
readBytes(rb, dest, count) ==
    OnLive(ReadBytesPrim(rb, dest, FALSE, count, rb.read, rb.write, FALSE))

\* discardBytes(count): _readBytes on the live cursors with nullptr.
discardBytes(rb, count, ub) ==
    OnLive(ReadBytesPrim(rb, NullDest, TRUE, count, rb.read, rb.write, ub))

\* Mutant: peekBytes hands the live cursors to _readBytes.
peekBytes_OnLiveCursors(rb, dest, count) ==
    LET r == ReadBytesPrim(rb, dest, FALSE, count, rb.read, rb.write, FALSE)
    IN [live |-> Cursors(r), scratch |-> Cursors(r), buffer |-> r.buffer,
        dest |-> r.dest,
        ret |-> r.ret, fault |-> r.fault, oob |-> r.oob,
        passes |-> <<r.spans>>, uf |-> r.uf]

\* peekBytes(destination, count): _readBytes on copies of the cursors.
peekBytes(rb, dest, count) ==
    OnCopies(rb,
             ReadBytesPrim(rb, dest, FALSE, count, rb.read, rb.write, FALSE))

\* Mutant: peekBytesAt runs its offset pass on the live cursors.
peekBytesAt_SkipOnLive(rb, dest, count, where, ub) ==
    LET skip == ReadBytesPrim(rb, NullDest, TRUE, where, rb.read, rb.write, ub)
        r    == ReadBytesPrim(rb, dest, FALSE, count, skip.read, skip.write, ub)
    IN IF skip.fault
       THEN [live |-> Cursors(rb), scratch |-> Cursors(skip),
             buffer |-> skip.buffer, dest |-> dest,
             ret |-> NoReturn, fault |-> TRUE, oob |-> skip.oob,
             passes |-> <<skip.spans>>, uf |-> skip.uf]
       ELSE IF skip.ret # where
       THEN [live |-> Cursors(skip), scratch |-> Cursors(skip),
             buffer |-> skip.buffer, dest |-> dest,
             ret |-> 0, fault |-> FALSE, oob |-> skip.oob,
             passes |-> <<skip.spans>>, uf |-> skip.uf]
       ELSE [live |-> Cursors(skip), scratch |-> Cursors(r),
             buffer |-> r.buffer, dest |-> r.dest,
             ret |-> r.ret, fault |-> r.fault, oob |-> skip.oob \/ r.oob,
             passes |-> <<skip.spans, r.spans>>, uf |-> skip.uf \/ r.uf]

\* The peek of peekBytesAt, on the cursor copies the offset pass skip has
\* left; dnull tells that the destination is nullptr.
PeekAfter(rb, dest, dnull, count, ub, skip) ==
    OnCopies(rb, ReadBytesPrim(rb, dest, dnull, count, skip.read, skip.write,
                               ub))

\* What peekBytesAt does once its offset pass skip is over: nothing more if
\* the pass faulted, return 0 if it fell short of where, else the peek.
PeekAtRest(rb, dest, dnull, count, where, ub, skip) ==
    IF skip.fault
    THEN [live |-> Cursors(rb), scratch |-> Cursors(skip),
          buffer |-> skip.buffer, dest |-> dest,
          ret |-> NoReturn, fault |-> TRUE, oob |-> skip.oob,
          passes |-> <<skip.spans>>, uf |-> skip.uf]
    ELSE IF skip.ret # where
    THEN [live |-> Cursors(rb), scratch |-> Cursors(skip),
          buffer |-> skip.buffer, dest |-> dest,
          ret |-> 0, fault |-> FALSE, oob |-> skip.oob,
          passes |-> <<skip.spans>>, uf |-> skip.uf]
    ELSE [PeekAfter(rb, dest, dnull, count, ub, skip)
             EXCEPT !.oob = @ \/ skip.oob, !.passes = <<skip.spans>> \o @,
                    !.uf = @ \/ skip.uf]

\* peekBytesAt(destination, count, where): discard where bytes on copies of
\* the cursors, give up unless all of them were there, then peek.
peekBytesAt(rb, dest, count, where, ub) ==
    PeekAtRest(rb, dest, FALSE, count, where, ub,
               ReadBytesPrim(rb, NullDest, TRUE, where, rb.read, rb.write, ub))

\* Mutant: clear() resets the read cursor only.
clear_KeepWrite(rb) == [read |-> rb.size, write |-> rb.write]

\* Mutant: the constructor starts both cursors at 0.
RingBuffer_ReadZero(memory, sz) ==
    [size |-> sz, read |-> 0, write |-> 0, buffer |-> memory]

\* RingBuffer(buffer, size): the fields of the constructed object.
RingBuffer(memory, sz) ==
    [size |-> sz, read |-> sz, write |-> 0, buffer |-> memory]

\* Mutant: _assertValid() does not test the buffer pointer.
AssertValidObject_NoBufferCheck(null, rb) == AssertValid(rb)

\* _assertValid() in full: assert(_buffer != nullptr) and the assertions on
\* the size and the cursors; null tells that _buffer is nullptr.
AssertValidObject(null, rb) == ~null /\ AssertValid(rb)

\* clear(): the cursor pair it assigns.
clear(rb) == [read |-> rb.size, write |-> 0]

(* ------------------------ null pointer arguments ----------------------- *)

\* Mutant: the assertion is waived for a call that transfers nothing.
AssertNonNull_CountAware(null, count, ndebug) == null /\ ~ndebug /\ count > 0

\* assert(destination != nullptr), assert(source != nullptr): whether the
\* assertion stops the call.  It does not look at count; a build with NDEBUG
\* has no assertions.
AssertNonNull(null, count, ndebug) == null /\ ~ndebug

\* A method result with the outcome of the assertion added.
Asserted(r, aborted) ==
    [live |-> r.live, scratch |-> r.scratch, buffer |-> r.buffer,
     dest |-> r.dest, ret |-> IF aborted THEN NoReturn ELSE r.ret,
     fault |-> r.fault, oob |-> r.oob, passes |-> r.passes, uf |-> r.uf,
     aborted |-> aborted]

\* A call the assertion stopped has done nothing.
Aborted(rb) ==
    Asserted([live |-> Cursors(rb), scratch |-> NoPeek, buffer |-> rb.buffer,
              dest |-> NullDest, ret |-> NoReturn, fault |-> FALSE,
              oob |-> FALSE, passes |-> << >>, uf |-> FALSE], TRUE)

\* The result r of writeBytes in the shape of a method result.
WriteOnLive(r) ==
    [live |-> Cursors(r), scratch |-> NoPeek, buffer |-> r.buffer,
     dest |-> NullDest, ret |-> r.ret, fault |-> FALSE, oob |-> r.oob,
     passes |-> <<r.spans>>, uf |-> r.uf]

\* readBytes(nullptr, count): past the assertion it is the call discardBytes
\* makes.
readBytesNull(rb, count, ndebug, ub) ==
    IF AssertNonNull(TRUE, count, ndebug) THEN Aborted(rb)
    ELSE Asserted(discardBytes(rb, count, ub), FALSE)

\* peekBytes(nullptr, count): _readBytes with nullptr on copies of the
\* cursors.
peekBytesNull(rb, count, ndebug, ub) ==
    IF AssertNonNull(TRUE, count, ndebug) THEN Aborted(rb)
    ELSE Asserted(
             OnCopies(rb, ReadBytesPrim(rb, NullDest, TRUE, count, rb.read,
                                        rb.write, ub)),
             FALSE)

\* peekBytesAt(nullptr, count, where): both passes run with nullptr.
peekBytesAtNull(rb, count, where, ndebug, ub) ==
    IF AssertNonNull(TRUE, count, ndebug) THEN Aborted(rb)
    ELSE Asserted(
             PeekAtRest(rb, NullDest, TRUE, count, where, ub,
                        ReadBytesPrim(rb, NullDest, TRUE, where, rb.read,
                                      rb.write, ub)),
             FALSE)

\* writeBytes(nullptr, count) for a call that gets no further than the early
\* return: the assertion stands before it.
writeBytesNull(rb, count, ndebug) ==
    IF AssertNonNull(TRUE, count, ndebug) THEN Aborted(rb)
    ELSE Asserted(WriteOnLive(writeBytes(rb, NullDest, 0)), FALSE)

(* ------------------------------- state --------------------------------- *)

VARIABLES
    size,     \* _size
    read,     \* _read
    write,    \* _write
    buffer,   \* the bytes _buffer points to
    fault,    \* "none", "segv" once a call has faulted the process, "assert"
              \* once an assertion has stopped it, "overrun" once a copy has
              \* run over the end of an array
    next,     \* the caller's counter: the next byte value it will offer
    fifo,     \* the bytes the caller has queued and not yet taken out
    call,     \* the call that has just returned (or faulted): its arguments,
              \* its result and the state it started from; NoCall in between
    written,  \* FifoSpec: every byte accepted by a writeBytes so far
    readOut,  \* FifoSpec: every byte returned by a readBytes so far
    pc,       \* the number of steps a scripted caller has taken, the number
              \* of calls two concurrent callers have made; 0 elsewhere
    writer,   \* ConcSpec: the writeBytes call in flight, [pc |-> "idle"] if none
    reader,   \* ConcSpec: the readBytes call in flight, [pc |-> "idle"] if none
    overlap   \* ConcSpec: some call has started while another was in flight

\* The variables of the concurrent callers.
threads == <<writer, reader, overlap>>

vars ==
    <<size, read, write, buffer, fault, next, fifo, call, written, readOut, pc,
      writer, reader, overlap>>

\* No call in flight.  ok tells that the last readBytes to return handed out
\* the oldest queued bytes.
IdleFrame(ok) == [pc |-> "idle", ok |-> ok]

\* Nobody is in a call and nobody has been.
ThreadsInit ==
    /\ writer = IdleFrame(TRUE)
    /\ reader = IdleFrame(TRUE)
    /\ overlap = FALSE

\* The object as a record.
RB == [size |-> size, read |-> read, write |-> write, buffer |-> buffer]

\* The source the caller offers: count consecutive counter values.
Source(count) == [i \in 0 .. (count - 1) |-> (next + i) % NumBytes]

NoCall == [op |-> "none"]

\* The record of a call: pre and fifo0 are the object and the queued bytes
\* when it started, peek the cursor copies a peek worked on.  null tells that
\* the pointer argument was nullptr, ndebug that the build has its assertions
\* compiled out, ub which way the build resolves the undefined pointer
\* comparison of _readBytes.
Call(op, count, where, ret, dest, oob, peek) ==
    [op |-> op, count |-> count, where |-> where, ret |-> ret, dest |-> dest,
     oob |-> oob, pre |-> RB, fifo0 |-> fifo, scratch |-> peek,
     null |-> FALSE, ndebug |-> FALSE, ub |-> FALSE, passes |-> << >>,
     uf |-> FALSE]

\* The call record c with the spans of the call's passes and whether a
\* subtraction wrapped around.
Traced(c, passes, uf) == [c EXCEPT !.passes = passes, !.uf = uf]

\* RingBuffer(buffer, size): _read = size, _write = 0; the memory is the
\* caller's and holds whatever it held.
Init ==
    /\ size \in Sizes
    /\ buffer = [i \in 0 .. (size - 1) |-> Stale]
    /\ read = RingBuffer(buffer, size).read
    /\ write = RingBuffer(buffer, size).write
    /\ fault = "none"
    /\ next = 0
    /\ fifo = << >>
    /\ call = NoCall
    /\ written = << >>
    /\ readOut = << >>
    /\ pc = 0
    /\ ThreadsInit

(* ------------------------------ actions -------------------------------- *)

\* The caller is between two calls.
Idle == fault = "none" /\ call = NoCall

Write(count) ==
    LET r == writeBytes(RB, Source(count), count)
    IN /\ Idle
       /\ read' = r.read
       /\ write' = r.write
       /\ buffer' = r.buffer
       /\ next' = (next + r.ret) % NumBytes
       /\ fifo' = fifo \o Prefix(Source(count), r.ret)
       /\ call' = Traced(Call("writeBytes", count, 0, r.ret, NullDest, r.oob,
                               NoPeek), <<r.spans>>, r.uf)
       /\ UNCHANGED <<size, fault, pc, threads>>

Read(count) ==
    LET r == readBytes(RB, FreshDest(count), count)
    IN /\ Idle
       /\ read' = r.live.read
       /\ write' = r.live.write
       /\ buffer' = r.buffer
       /\ fifo' = Drop(fifo, r.ret)
       /\ call' = Traced(Call("readBytes", count, 0, r.ret, r.dest, r.oob,
                               NoPeek), r.passes, r.uf)
       /\ UNCHANGED <<size, fault, next, pc, threads>>

WriteBytes ==
    \E count \in Counts(size) :
        Write(count) /\ UNCHANGED <<written, readOut>>

ReadBytes ==
    \E count \in Counts(size) :
        Read(count) /\ UNCHANGED <<written, readOut>>

DiscardBytes ==
    \E count \in Counts(size), ub \in BOOLEAN :
        LET r == discardBytes(RB, count, ub)
        IN /\ Idle
           /\ read' = r.live.read
           /\ write' = r.live.write
           /\ buffer' = r.buffer
           /\ fault' = IF r.fault THEN "segv" ELSE "none"
           /\ fifo' = IF r.fault THEN fifo ELSE Drop(fifo, r.ret)
           /\ call' = Traced(Call("discardBytes", count, 0, r.ret, NullDest,
                                   r.oob, NoPeek), r.passes, r.uf)
           /\ UNCHANGED <<size, next, written, readOut, pc, threads>>

PeekBytes ==
    \E count \in Counts(size) :
        LET r == peekBytes(RB, FreshDest(count), count)
        IN /\ Idle
           /\ read' = r.live.read
           /\ write' = r.live.write
           /\ buffer' = r.buffer
           /\ call' = Traced(Call("peekBytes", count, 0, r.ret, r.dest, r.oob,
                                   r.scratch), r.passes, r.uf)
           /\ UNCHANGED <<size, fault, next, fifo, written, readOut, pc, threads>>

PeekBytesAt ==
    \E count \in Counts(size), where \in Counts(size), ub \in BOOLEAN :
        LET r == peekBytesAt(RB, FreshDest(count), count, where, ub)
        IN /\ Idle
           /\ fault' = IF r.fault THEN "segv" ELSE "none"
           /\ read' = r.live.read
           /\ write' = r.live.write
           /\ buffer' = r.buffer
           /\ call' = [Call("peekBytesAt", count, where, r.ret, r.dest, r.oob,
                            r.scratch)
                       EXCEPT !.ub = ub, !.passes = r.passes, !.uf = r.uf]
           /\ UNCHANGED <<size, next, fifo, written, readOut, pc, threads>>

Clear ==
    LET r == clear(RB)
    IN /\ Idle
       /\ read' = r.read
       /\ write' = r.write
       /\ fifo' = << >>
       /\ call' = Call("clear", 0, 0, 0, NullDest, FALSE, NoPeek)
       /\ UNCHANGED <<size, buffer, fault, next, written, readOut, pc, threads>>

\* A call with nullptr for the destination or the source.  In a build with
\* assertions the count is any; without them the caller has nothing to
\* transfer and asks for 0 bytes.
NullPointerCall ==
    \E op \in {"readBytes", "peekBytes", "peekBytesAt", "writeBytes"},
       count \in Counts(size), where \in Counts(size),
       ndebug \in BOOLEAN, ub \in BOOLEAN :
        LET r == IF op = "readBytes"
                 THEN readBytesNull(RB, count, ndebug, ub)
                 ELSE IF op = "peekBytes"
                 THEN peekBytesNull(RB, count, ndebug, ub)
                 ELSE IF op = "peekBytesAt"
                 THEN peekBytesAtNull(RB, count, where, ndebug, ub)
                 ELSE writeBytesNull(RB, count, ndebug)
        IN /\ Idle
           /\ ndebug => count = 0
           /\ op # "peekBytesAt" => where = 0
           /\ (op # "peekBytesAt" \/ ~ndebug) => ~ub
           /\ read' = r.live.read
           /\ write' = r.live.write
           /\ buffer' = r.buffer
           /\ fault' = IF r.aborted THEN "assert"
                       ELSE IF r.fault THEN "segv" ELSE "none"
           /\ fifo' = IF r.aborted \/ r.fault THEN fifo ELSE Drop(fifo, r.ret)
           /\ call' = [Call(op, count, where, r.ret, NullDest, r.oob,
                            r.scratch)
                       EXCEPT !.null = TRUE, !.ndebug = ndebug, !.ub = ub,
                              !.passes = r.passes, !.uf = r.uf]
           /\ UNCHANGED <<size, next, written, readOut, pc, threads>>

\* The caller has looked at the result and goes on to its next call.  A
\* faulted process does not go on.
Return ==
    /\ fault = "none"
    /\ call # NoCall
    /\ call' = NoCall
    /\ UNCHANGED <<size, read, write, buffer, fault, next, fifo,
                   written, readOut, pc, threads>>

Next ==
    \/ WriteBytes
    \/ ReadBytes
    \/ DiscardBytes
    \/ PeekBytes
    \/ PeekBytesAt
    \/ Clear
    \/ Return

Spec == Init /\ [][Next]_vars

(* ------------------- writes and reads only, logged --------------------- *)

LogWrite ==
    \E count \in Counts(size) :
        LET r == writeBytes(RB, Source(count), count)
        IN /\ Len(written) + r.ret <= MaxTotal
           /\ Write(count)
           /\ written' = written \o Prefix(Source(count), r.ret)
           /\ UNCHANGED readOut

LogRead ==
    \E count \in Counts(size) :
        LET r == readBytes(RB, FreshDest(count), count)
        IN /\ Read(count)
           /\ readOut' = readOut \o Prefix(r.dest, r.ret)
           /\ UNCHANGED written

FifoNext == LogWrite \/ LogRead \/ Return

FifoSpec == Init /\ [][FifoNext]_vars

(* ------------------ callers that may pass a null pointer --------------- *)

NullNext == Next \/ NullPointerCall

NullSpec == Init /\ [][NullNext]_vars

(* ---------------- fill, drain a part, refill, drain all ----------------- *)

\* BUFFER_SIZE: the capacity the tests run with.
ScenarioSize == 100

\* The source of a scripted write: count consecutive counter values, all
\* distinct.
ScenarioSource(count) == [i \in 0 .. (count - 1) |-> next + i]

ScenarioInit ==
    /\ size = ScenarioSize
    /\ buffer = [i \in 0 .. (size - 1) |-> Stale]
    /\ read = RingBuffer(buffer, size).read
    /\ write = RingBuffer(buffer, size).write
    /\ fault = "none"
    /\ next = 0
    /\ fifo = << >>
    /\ call = NoCall
    /\ written = << >>
    /\ readOut = << >>
    /\ pc = 0
    /\ ThreadsInit

ScenarioWrite(count) ==
    LET r == writeBytes(RB, ScenarioSource(count), count)
    IN /\ read' = r.read
       /\ write' = r.write
       /\ buffer' = r.buffer
       /\ next' = next + r.ret
       /\ fifo' = fifo \o Prefix(ScenarioSource(count), r.ret)
       /\ written' = written \o Prefix(ScenarioSource(count), r.ret)
       /\ call' = Traced(Call("writeBytes", count, 0, r.ret, NullDest, r.oob,
                               NoPeek), <<r.spans>>, r.uf)
       /\ pc' = pc + 1
       /\ UNCHANGED <<size, fault, readOut, threads>>

ScenarioRead(count) ==
    LET r == readBytes(RB, FreshDest(count), count)
    IN /\ read' = r.live.read
       /\ write' = r.live.write
       /\ buffer' = r.buffer
       /\ fifo' = Drop(fifo, r.ret)
       /\ readOut' = readOut \o Prefix(r.dest, r.ret)
       /\ call' = Traced(Call("readBytes", count, 0, r.ret, r.dest, r.oob,
                               NoPeek), r.passes, r.uf)
       /\ pc' = pc + 1
       /\ UNCHANGED <<size, fault, next, written, threads>>

\* Write as many bytes as the buffer holds.
FillUp == pc = 0 /\ ScenarioWrite(ScenarioSize)

\* Write one byte more.
OneMore == pc = 1 /\ ScenarioWrite(1)

\* Read a part of the content, or all of it, or nothing.
ReadSome == pc = 2 /\ \E k \in 0 .. ScenarioSize : ScenarioRead(k)

\* Write as many further bytes as were just read.
Refill == pc = 3 /\ ScenarioWrite(call.ret)

\* Read as many bytes as the buffer holds.
ReadAll == pc = 4 /\ ScenarioRead(ScenarioSize)

ScenarioNext == FillUp \/ OneMore \/ ReadSome \/ Refill \/ ReadAll

ScenarioSpec == ScenarioInit /\ [][ScenarioNext]_vars

(* --------------------- any constructor arguments ---------------------- *)

\* RingBuffer(buffer, size) with any arguments: a null or a real buffer
\* pointer, a size from 0 on, in a build with or without assertions.  The
\* constructor sets the fields and runs _assertValid(); the first state is
\* the one it leaves, with the constructor as the call just made.
CtorInit ==
    \E null \in BOOLEAN, ndebug \in BOOLEAN :
        /\ size \in 0 .. MaxSize
        /\ buffer = IF null THEN NullDest
                    ELSE [i \in 0 .. (size - 1) |-> Stale]
        /\ read = RingBuffer(buffer, size).read
        /\ write = RingBuffer(buffer, size).write
        /\ fault = IF ~ndebug /\ ~AssertValidObject(null, RB) THEN "assert"
                   ELSE "none"
        /\ next = 0
        /\ fifo = << >>
        /\ call = [Call("RingBuffer", size, 0,
                        IF fault = "assert" THEN NoReturn ELSE 0,
                        NullDest, FALSE, NoPeek)
                   EXCEPT !.null = null, !.ndebug = ndebug]
        /\ written = << >>
        /\ readOut = << >>
        /\ pc = 0
        /\ ThreadsInit

\* The object is one the methods are defined on: using an object built from
\* a null pointer or a size of 0 is undefined and is not followed further.
Usable == size > 0 /\ (call.op = "RingBuffer" => ~call.null)

CtorNext ==
    \/ Usable /\ WriteBytes
    \/ Usable /\ ReadBytes
    \/ Usable /\ DiscardBytes
    \/ Usable /\ PeekBytes
    \/ Usable /\ PeekBytesAt
    \/ Usable /\ Clear
    \/ Usable /\ Return

CtorSpec == CtorInit /\ [][CtorNext]_vars

(* ------------- a writer and a reader without synchronization ---------- *)
\* One caller is in writeBytes while another is in readBytes on the same
\* object.  A step of a call is the code from the previous assignment to
\* _read or _write (or from the entry) up to and including the next one; the
\* steps of the two calls interleave freely.  A machine is a call frame with
\* the object's fields as the step finds and leaves them:
\* [pc, count, left, data, pos, oob, size, read, write, buffer].

Finish(m) == [m EXCEPT !.pc = "done"]

\* Mutant: reaching the read location does not mark the buffer full.
WFull_NoMark(m) ==
    IF m.read = m.size THEN [m EXCEPT !.read = 0, !.pc = "done"]
    ELSE Finish(m)

\* if (_read == _size) _read = 0; return
WUnempty(m) ==
    IF m.read = m.size THEN [m EXCEPT !.read = 0, !.pc = "done"]
    ELSE Finish(m)

\* if (_write == _read) _write = _size
WFull(m) ==
    IF m.write = m.read THEN [m EXCEPT !.write = m.size, !.pc = "unempty"]
    ELSE WUnempty(m)

\* if (_read > _write): copy up to the read location, _write += n
WSecond(m) ==
    IF m.read > m.write
    THEN LET n == Min(m.left, USub(m.read, m.write))
         IN [m EXCEPT
                !.buffer = Memcpy(m.buffer, m.write, m.data, m.pos, n),
                !.oob    = OutOfBounds(m.size, m.write, n),
                !.write  = UAdd(m.write, n),
                !.left   = USub(m.left, n),
                !.pc     = "full"]
    ELSE Finish(m)

\* if (_write == _size && _read > 0) _write = 0
WWrap(m) ==
    IF m.write = m.size /\ m.read > 0
    THEN [m EXCEPT !.write = 0, !.pc = "second"]
    ELSE WSecond(m)

\* if (_read < _write): copy up to the end of the array, _write += n
WFirst(m) ==
    IF m.read < m.write
    THEN LET n == Min(m.left, USub(m.size, m.write))
         IN [m EXCEPT
                !.buffer = Memcpy(m.buffer, m.write, m.data, m.pos, n),
                !.oob    = OutOfBounds(m.size, m.write, n),
                !.left   = USub(m.left, n),
                !.write  = UAdd(m.write, n),
                !.pos    = m.pos + n,
                !.pc     = "wrap"]
    ELSE WSecond(m)

\* writeBytes from its entry: the early return, then the first branch.
WEnter(m) ==
    IF m.count = 0 \/ m.write = m.size THEN Finish(m)
    ELSE WFirst(m)

\* The next step of the writeBytes call of machine m.
WriterStep(m) ==
    IF m.pc = "enter" THEN WEnter(m)
    ELSE IF m.pc = "wrap" THEN WWrap(m)
    ELSE IF m.pc = "second" THEN WSecond(m)
    ELSE IF m.pc = "full" THEN WFull(m)
    ELSE WUnempty(m)

\* write = 0, the second half of the empty encoding; return
RZero(m) == [m EXCEPT !.write = 0, !.pc = "done"]

\* if (read == write) read = _size
REmpty(m) ==
    IF m.read = m.write THEN [m EXCEPT !.read = m.size, !.pc = "zero"]
    ELSE Finish(m)

\* if (read < write): copy up to the write location, read += n
RSecond(m) ==
    IF m.read < m.write
    THEN LET n == Min(m.left, USub(m.write, m.read))
         IN [m EXCEPT
                !.data = Memcpy(m.data, m.pos, m.buffer, m.read, n),
                !.oob  = OutOfBounds(m.size, m.read, n)
                           \/ OutOfBounds(m.count, m.pos, n),
                !.left = USub(m.left, n),
                !.read = UAdd(m.read, n),
                !.pc   = "empty"]
    ELSE Finish(m)

\* if (read == _size && write > 0) read = 0
RWrap(m) ==
    IF m.read = m.size /\ m.write > 0
    THEN [m EXCEPT !.read = 0, !.pc = "second"]
    ELSE RSecond(m)

\* copy up to the end of the array, read += n
RFirst(m) ==
    LET n == Min(m.left, USub(m.size, m.read))
    IN [m EXCEPT
           !.data = Memcpy(m.data, m.pos, m.buffer, m.read, n),
           !.oob  = OutOfBounds(m.size, m.read, n)
                      \/ OutOfBounds(m.count, m.pos, n),
           !.left = USub(m.left, n),
           !.read = UAdd(m.read, n),
           !.pos  = m.pos + n,
           !.pc   = "wrap"]

\* _readBytes from its entry: the early return, then the first branch with
\* its write = read for a full buffer.
REnter(m) ==
    IF m.count = 0 \/ m.read = m.size THEN Finish(m)
    ELSE IF m.read > m.write \/ m.write = m.size
    THEN IF m.write = m.size
         THEN [m EXCEPT !.write = m.read, !.pc = "first"]
         ELSE RFirst(m)
    ELSE RSecond(m)

\* The next step of the readBytes call of machine m.
ReaderStep(m) ==
    IF m.pc = "enter" THEN REnter(m)
    ELSE IF m.pc = "first" THEN RFirst(m)
    ELSE IF m.pc = "wrap" THEN RWrap(m)
    ELSE IF m.pc = "second" THEN RSecond(m)
    ELSE IF m.pc = "empty" THEN REmpty(m)
    ELSE RZero(m)

\* The call frame fr put on the object as it is now.
Machine(fr) ==
    [pc |-> fr.pc, count |-> fr.count, left |-> fr.left, data |-> fr.data,
     pos |-> fr.pos, oob |-> FALSE, size |-> size, read |-> read,
     write |-> write, buffer |-> buffer]

\* The frame of a call that is about to start.
Entering(count, data) ==
    [pc |-> "enter", count |-> count, left |-> count, data |-> data, pos |-> 0]

\* What is left of machine m for the call's next step.
FrameOf(m) ==
    [pc |-> m.pc, count |-> m.count, left |-> m.left, data |-> m.data,
     pos |-> m.pos]

\* The writer has taken a step that left machine m.  A copy that left the
\* array ends the run; a call that is done returns count - left, and the
\* bytes it took are queued.
WriterTook(m) ==
    /\ read' = m.read
    /\ write' = m.write
    /\ buffer' = m.buffer
    /\ fault' = IF m.oob THEN "overrun" ELSE "none"
    /\ writer' = IF m.pc = "done" THEN IdleFrame(TRUE) ELSE FrameOf(m)
    /\ next' = IF m.pc = "done"
               THEN (next + USub(m.count, m.left)) % NumBytes ELSE next
    /\ fifo' = IF m.pc = "done"
               THEN fifo \o Prefix(m.data, USub(m.count, m.left)) ELSE fifo

\* The reader has taken a step that left machine m.  A call that is done
\* returns count - left; the bytes it hands out should be the oldest queued
\* ones.
ReaderTook(m) ==
    /\ read' = m.read
    /\ write' = m.write
    /\ buffer' = m.buffer
    /\ fault' = IF m.oob THEN "overrun" ELSE "none"
    /\ reader' = IF m.pc = "done"
                 THEN IdleFrame(Prefix(m.data, USub(m.count, m.left))
                                  = Take(fifo, USub(m.count, m.left)))
                 ELSE FrameOf(m)
    /\ fifo' = IF m.pc = "done" THEN Drop(fifo, USub(m.count, m.left))
               ELSE fifo

\* A caller enters writeBytes: _assertValid(), then the first step.
WriterCall ==
    \E count \in Counts(size), ndebug \in BOOLEAN :
        /\ fault = "none"
        /\ writer.pc = "idle"
        /\ pc < MaxCalls
        /\ pc' = pc + 1
        /\ overlap' = (overlap \/ reader.pc # "idle")
        /\ IF ~ndebug /\ ~AssertValid(RB)
           THEN /\ fault' = "assert"
                /\ UNCHANGED <<read, write, buffer, writer, next, fifo>>
           ELSE WriterTook(WriterStep(Machine(Entering(count, Source(count)))))
        /\ UNCHANGED <<size, call, written, readOut, reader>>

\* The writer goes on to its next assignment to a cursor.
WriterGoes ==
    /\ fault = "none"
    /\ writer.pc # "idle"
    /\ WriterTook(WriterStep(Machine(writer)))
    /\ UNCHANGED <<size, call, written, readOut, pc, reader, overlap>>

\* A caller enters readBytes: _assertValid() in _readBytes, then the first
\* step.
ReaderCall ==
    \E count \in Counts(size), ndebug \in BOOLEAN :
        /\ fault = "none"
        /\ reader.pc = "idle"
        /\ pc < MaxCalls
        /\ pc' = pc + 1
        /\ overlap' = (overlap \/ writer.pc # "idle")
        /\ IF ~ndebug /\ ~AssertValid(RB)
           THEN /\ fault' = "assert"
                /\ UNCHANGED <<read, write, buffer, reader, fifo>>
           ELSE ReaderTook(ReaderStep(Machine(Entering(count,
                                                       FreshDest(count)))))
        /\ UNCHANGED <<size, call, written, readOut, next, writer>>

\* The reader goes on to its next assignment to a cursor.
ReaderGoes ==
    /\ fault = "none"
    /\ reader.pc # "idle"
    /\ ReaderTook(ReaderStep(Machine(reader)))
    /\ UNCHANGED <<size, call, written, readOut, next, pc, writer, overlap>>

ConcNext == WriterCall \/ WriterGoes \/ ReaderCall \/ ReaderGoes

ConcSpec == Init /\ [][ConcNext]_vars

(* --------------------- a producer and a consumer ---------------------- *)
\* A producer has a stream of MaxTotal bytes and keeps offering writeBytes
\* the rest that has not been accepted yet; a consumer keeps calling
\* readBytes with some count >= 1.  Calls are atomic and each caller is
\* scheduled under weak fairness.

\* The bytes of the stream: what Source hands out from the first byte on.
Stream == [i \in 1 .. MaxTotal |-> (i - 1) % NumBytes]

\* The producer's writeBytes of count bytes has left result r.
Produced(count, r) ==
    /\ read' = r.read
    /\ write' = r.write
    /\ buffer' = r.buffer
    /\ next' = (next + r.ret) % NumBytes
    /\ fifo' = fifo \o Prefix(Source(count), r.ret)
    /\ written' = written \o Prefix(Source(count), r.ret)
    /\ call' = Traced(Call("writeBytes", count, 0, r.ret, NullDest, r.oob,
                            NoPeek), <<r.spans>>, r.uf)

\* writeBytes(rest of the stream, its length)
Offer(count) ==
    IF isFull(RB)
    THEN \E r \in {writeBytes(RB, Source(count), count)} : Produced(count, r)
    ELSE \E f0 \in {WriteFrame(RB, Source(count), count)} :
         \E f1 \in {WriteFirst(f0)} :
         \E f2 \in {WriteSecond(f1)} :
         \E r \in {WriteResult(f2, count)} : Produced(count, r)

Produce ==
    /\ Len(written) < MaxTotal
    /\ Offer(MaxTotal - Len(written))
    /\ UNCHANGED <<size, fault, readOut, pc, threads>>

\* The consumer's readBytes of count bytes has left result r.
Consumed(count, r) ==
    /\ read' = r.live.read
    /\ write' = r.live.write
    /\ buffer' = r.buffer
    /\ fifo' = Drop(fifo, r.ret)
    /\ readOut' = readOut \o Prefix(r.dest, r.ret)
    /\ call' = Traced(Call("readBytes", count, 0, r.ret, r.dest, r.oob,
                            NoPeek), r.passes, r.uf)

\* readBytes(destination, count): _readBytes on the live cursors, branch
\* after branch.
Fetch(count) ==
    IF isEmpty(RB)
    THEN \E r \in {readBytes(RB, FreshDest(count), count)} : Consumed(count, r)
    ELSE \E f0 \in {ReadFrame(RB, FreshDest(count), FALSE, count, read, write,
                              FALSE)} :
         \E f1 \in {ReadFirst(f0)} :
         \E f2 \in {ReadSecond(f1)} :
         \E r \in {OnLive(ReadResult(f2, count))} : Consumed(count, r)

\* readBytes(destination, count) with count >= 1
Consume ==
    /\ Len(readOut) < MaxTotal
    /\ \E count \in Counts(size) \ {0} : Fetch(count)
    /\ UNCHANGED <<size, fault, next, written, pc, threads>>

LiveNext == Produce \/ Consume

LiveSpec ==
    Init /\ [][LiveNext]_vars /\ WF_vars(Produce) /\ WF_vars(Consume)

TypeOK ==
    /\ size \in Sizes
    /\ read \in 0 .. size
    /\ write \in 0 .. size
    /\ buffer \in [0 .. (size - 1) -> 0 .. NumBytes]
    /\ fault \in {"none", "segv", "assert", "overrun"}
    /\ next \in 0 .. (NumBytes - 1)
    /\ Len(fifo) <= size

(* ------------------------------ properties ----------------------------- *)

\* The readable bytes of object rb, oldest first: the bytes at the indices
\* (read + i) mod size, i < readable count.
Queue(rb) ==
    [i \in 1 .. getReadableByteCount(rb) |->
        rb.buffer[(rb.read + i - 1) % rb.size]]

\* The indices of the backing array that hold a readable byte.
ReadableSlots(rb) ==
    {(rb.read + i - 1) % rb.size : i \in 1 .. getReadableByteCount(rb)}

\* A freshly constructed object over the memory of rb.
Fresh(rb) == RingBuffer(rb.buffer, rb.size)

Returned(op) == call.op = op

\* C1: after any sequence of calls, with any counts, the live cursors satisfy
\* read < C or (read = C and write = 0), write <= C and read # write, so the
\* assertions of _assertValid hold.
C1_CursorInvariant ==
    /\ (read < size \/ (read = size /\ write = 0))
    /\ write <= size
    /\ read # write
    /\ AssertValid(RB)

\* A write of more bytes than the capacity has filled a buffer whose oldest
\* byte sits in the middle of the array.
C1_Witness ==
    /\ Returned("writeBytes")
    /\ call.count > size
    /\ isFull(RB)
    /\ read > 0

\* C2: under writes and reads alone, the bytes returned by the reads, in
\* order, are a prefix of the bytes accepted by the writes, in order; the
\* accepted bytes not yet returned are as many as the buffer says are readable.
C2_FifoOrder ==
    /\ IsPrefixOf(readOut, written)
    /\ Len(written) - Len(readOut) = getReadableByteCount(RB)

\* A read has returned bytes from both sides of the end of the array.
C2_Witness ==
    /\ Returned("readBytes")
    /\ call.pre.read > 0
    /\ call.pre.read + call.ret > size
    /\ Len(readOut) > call.ret

\* C3: readable + writable = C; never full and empty at once; empty exactly
\* when nothing is readable, full exactly when nothing is writable.
C3_Counts ==
    /\ getReadableByteCount(RB) + getWritableByteCount(RB) = size
    /\ ~(isFull(RB) /\ isEmpty(RB))
    /\ isEmpty(RB) <=> getReadableByteCount(RB) = 0
    /\ isFull(RB) <=> getWritableByteCount(RB) = 0

\* The buffer is full with its oldest byte in the middle of the array.
C3_Witness ==
    /\ call # NoCall
    /\ isFull(RB)
    /\ read > 0
    /\ getReadableByteCount(RB) = size

\* C4: writeBytes(src, k) with writable count w returns min(k, w); after it
\* the writable count is w - min(k, w) and the readable count has grown by
\* min(k, w).
C4_WriteCapping ==
    Returned("writeBytes") =>
        LET w == getWritableByteCount(call.pre)
            n == Min(call.count, w)
        IN /\ call.ret = n
           /\ getWritableByteCount(RB) = w - n
           /\ getReadableByteCount(RB) = getReadableByteCount(call.pre) + n

\* A write was cut short by a free space lying on both sides of the end of
\* the array.
C4_Witness ==
    /\ Returned("writeBytes")
    /\ call.pre.read > 0
    /\ call.pre.read < call.pre.write
    /\ call.pre.write < size
    /\ call.count > call.ret
    /\ call.ret > size - call.pre.write

\* C5: readBytes(dest, k) and discardBytes(k) with readable count r return
\* min(k, r); after the call the readable count is r - min(k, r) and the
\* writable count has grown by min(k, r).
C5_ReadDiscardCapping ==
    (Returned("readBytes") \/ Returned("discardBytes")) =>
        LET r == getReadableByteCount(call.pre)
            n == Min(call.count, r)
        IN /\ fault = "none"
           /\ call.ret = n
           /\ getReadableByteCount(RB) = r - n
           /\ getWritableByteCount(RB) = getWritableByteCount(call.pre) + n

\* C5, the part that holds: readBytes returns min(k, r) and moves the counts
\* by that amount.
C5_ReadCapping ==
    Returned("readBytes") =>
        LET r == getReadableByteCount(call.pre)
            n == Min(call.count, r)
        IN /\ fault = "none"
           /\ call.ret = n
           /\ getReadableByteCount(RB) = r - n
           /\ getWritableByteCount(RB) = getWritableByteCount(call.pre) + n

\* C6: peekBytes(dest, k) with readable count r returns min(k, r) and copies
\* the first min(k, r) queued bytes; peekBytes and peekBytesAt leave the
\* cursors, the answers of the four queries and the backing array as they
\* were.
C6_PeekFrame ==
    /\ Returned("peekBytes") =>
          LET n == Min(call.count, getReadableByteCount(call.pre))
          IN /\ call.ret = n
             /\ Prefix(call.dest, n) = Take(call.fifo0, n)
             /\ Prefix(call.dest, n) = Take(Queue(call.pre), n)
    /\ (Returned("peekBytes") \/ Returned("peekBytesAt")) =>
          /\ read = call.pre.read
          /\ write = call.pre.write
          /\ buffer = call.pre.buffer
          /\ isEmpty(RB) = isEmpty(call.pre)
          /\ isFull(RB) = isFull(call.pre)
          /\ getReadableByteCount(RB) = getReadableByteCount(call.pre)
          /\ getWritableByteCount(RB) = getWritableByteCount(call.pre)
          /\ fifo = call.fifo0

\* A peek of a full buffer whose data wraps has copied bytes from both sides
\* of the end of the array.
C6_Witness ==
    /\ Returned("peekBytes")
    /\ isFull(call.pre)
    /\ call.pre.read > 0
    /\ call.ret = size
    /\ call.scratch # [read |-> read, write |-> write]

\* C7: peekBytesAt(dest, count, offset) with offset <= readable returns
\* min(count, readable - offset), and the bytes copied are the queued bytes
\* at positions offset .. offset + returned - 1.
C7_PeekAt ==
    (Returned("peekBytesAt") /\ call.where <= getReadableByteCount(call.pre)) =>
        LET n == Min(call.count, getReadableByteCount(call.pre) - call.where)
        IN /\ fault = "none"
           /\ call.ret = n
           /\ Prefix(call.dest, n) = Take(Drop(call.fifo0, call.where), n)

\* C8: peekBytesAt(dest, count, offset) with offset > readable returns 0,
\* copies nothing and leaves the buffer as it was.
C8_PeekAtGate ==
    (Returned("peekBytesAt") /\ call.where > getReadableByteCount(call.pre)) =>
        /\ fault = "none"
        /\ call.ret = 0
        /\ call.dest = FreshDest(call.count)
        /\ RB = call.pre

\* C9: writeBytes changes no slot that holds a readable byte: the readable
\* bytes before the call are a prefix of the readable bytes after it; on a
\* full buffer it returns 0 and changes neither cursors nor contents.
C9_NoOverwrite ==
    Returned("writeBytes") =>
        /\ \A i \in ReadableSlots(call.pre) : buffer[i] = call.pre.buffer[i]
        /\ IsPrefixOf(Queue(call.pre), Queue(RB))
        /\ ~call.oob
        /\ isFull(call.pre) => (call.ret = 0 /\ RB = call.pre)

\* A write of more bytes than were free into a buffer whose readable bytes
\* wrap around the end of the array.
C9_Witness ==
    /\ Returned("writeBytes")
    /\ call.pre.read > call.pre.write
    /\ call.pre.write > 0
    /\ call.count > call.ret
    /\ call.ret > 0

\* C10: after clear() the buffer is in its initial state: empty, not full,
\* nothing readable, C writable, read = C and write = 0; and every call then
\* returns what it returns on a freshly constructed buffer and leaves the same
\* cursors and the same readable bytes.
C10_ClearResets ==
    Returned("clear") =>
        /\ read = size
        /\ write = 0
        /\ isEmpty(RB)
        /\ ~isFull(RB)
        /\ getReadableByteCount(RB) = 0
        /\ getWritableByteCount(RB) = size
        /\ fifo = << >>
        /\ \A k \in Counts(size) :
              LET a == writeBytes(RB, Source(k), k)
                  b == writeBytes(Fresh(call.pre), Source(k), k)
                  ra == [RB EXCEPT !.read = a.read, !.write = a.write,
                                   !.buffer = a.buffer]
                  rf == [RB EXCEPT !.read = b.read, !.write = b.write,
                                   !.buffer = b.buffer]
              IN /\ a.ret = b.ret
                 /\ a.read = b.read
                 /\ a.write = b.write
                 /\ Queue(ra) = Queue(rf)
                 /\ readBytes(RB, FreshDest(k), k).ret = 0
                 /\ discardBytes(RB, k, TRUE).ret = 0
                 /\ peekBytes(RB, FreshDest(k), k).ret = 0

\* clear() was called on a full buffer whose data wrapped.
C10_Witness ==
    /\ Returned("clear")
    /\ isFull(call.pre)
    /\ call.pre.read > 0

\* No call has stored a byte in the caller's memory yet.
NothingStored == \A i \in DOMAIN buffer : buffer[i] = Stale

\* C11: a buffer constructed over any memory with any capacity C >= 1 is
\* empty and not full, with 0 bytes readable and C bytes writable; and so is
\* the program's buffer for as long as nothing has been stored in it.
C11_InitiallyEmpty ==
    /\ LET o == RingBuffer(buffer, size)
       IN /\ AssertValid(o)
          /\ isEmpty(o)
          /\ ~isFull(o)
          /\ getReadableByteCount(o) = 0
          /\ getWritableByteCount(o) = size
    /\ NothingStored =>
          /\ isEmpty(RB)
          /\ ~isFull(RB)
          /\ getReadableByteCount(RB) = 0
          /\ getWritableByteCount(RB) = size

\* The buffer of the largest capacity, just constructed: no call made yet.
C11_Witness ==
    /\ call = NoCall
    /\ NothingStored
    /\ next = 0
    /\ RB = RingBuffer(buffer, size)
    /\ size = MaxSize

\* A call that was handed nullptr has come back, or has stopped the process.
NullReturned == call.op # "none" /\ call.null

\* C12 as stated: a call with a null pointer and count = 0 fails no
\* assertion, returns 0 and changes no state.
C12_NullCountZero ==
    (NullReturned /\ call.count = 0) =>
        /\ fault = "none"
        /\ call.ret = 0
        /\ RB = call.pre

\* C12, amended: a null destination or source pointer is a contract violation
\* whatever the count.  In a build with assertions readBytes, peekBytes,
\* peekBytesAt and writeBytes stop at the assertion, also when count = 0, and
\* nothing has changed by then.  Only with the assertions compiled out do
\* readBytes, peekBytes and writeBytes with a null pointer and count = 0
\* return 0 and change no state.
C12_NullPointerAsserts ==
    NullReturned =>
        /\ ~call.ndebug =>
              /\ fault = "assert"
              /\ call.ret = NoReturn
              /\ RB = call.pre
              /\ fifo = call.fifo0
        /\ (call.ndebug /\ call.count = 0 /\ call.op # "peekBytesAt") =>
              /\ fault = "none"
              /\ call.ret = 0
              /\ RB = call.pre
              /\ fifo = call.fifo0

\* readBytes(nullptr, 0) on a buffer that holds bytes, in a build with
\* assertions.
C12_Witness ==
    /\ NullReturned
    /\ call.op = "readBytes"
    /\ call.count = 0
    /\ ~call.ndebug
    /\ ~isEmpty(call.pre)

\* C13: writeBytes, readBytes, discardBytes, peekBytes and peekBytesAt called
\* with count = 0 (peekBytesAt with any offset) return 0 and leave both
\* cursors, the backing array and the destination unchanged.
C13_ZeroCount ==
    (call.op \in {"writeBytes", "readBytes", "discardBytes", "peekBytes",
                  "peekBytesAt"} /\ call.count = 0) =>
        /\ fault = "none"
        /\ call.ret = 0
        /\ RB = call.pre
        /\ call.dest \in {NullDest, FreshDest(0)}

\* C14: readBytes, peekBytes and peekBytesAt write the first n positions of
\* the destination, n being the count they return, and leave every position
\* at an index >= n as the caller handed it over, also when the requested
\* count exceeds the readable count or the capacity; no copy goes past the
\* destination.  A call that faults before it returns has written none.
C14_DestinationFrame ==
    call.op \in {"readBytes", "peekBytes", "peekBytesAt"} =>
        /\ DOMAIN call.dest = DOMAIN FreshDest(call.count)
        /\ \A i \in DOMAIN call.dest :
              /\ i < call.ret => call.dest[i] # DestFill
              /\ i >= call.ret => call.dest[i] = DestFill
        /\ ~call.oob

\* A peek at an offset asked for more bytes than the capacity and got some.
C14_Witness ==
    /\ Returned("peekBytesAt")
    /\ call.where > 0
    /\ call.count > size
    /\ call.ret > 0
    /\ call.ret < call.count

\* The object rb with the cursor pair c.
WithCursors(rb, c) == [rb EXCEPT !.read = c.read, !.write = c.write]

\* C15: a peekBytes or peekBytesAt that has returned, made again with the
\* same arguments and no mutating call in between, returns the same count
\* and the same bytes, and the readable and writable counts are the same
\* before the first, between the two and after the second.
C15_PeekRepeatable ==
    /\ Returned("peekBytes") =>
          LET r == peekBytes(RB, FreshDest(call.count), call.count)
          IN /\ r.ret = call.ret
             /\ r.dest = call.dest
             /\ getReadableByteCount(RB) = getReadableByteCount(call.pre)
             /\ getWritableByteCount(RB) = getWritableByteCount(call.pre)
             /\ getReadableByteCount(WithCursors(RB, r.live))
                    = getReadableByteCount(call.pre)
             /\ getWritableByteCount(WithCursors(RB, r.live))
                    = getWritableByteCount(call.pre)
    /\ (Returned("peekBytesAt") /\ fault = "none") =>
          LET r == peekBytesAt(RB, FreshDest(call.count), call.count,
                               call.where, call.ub)
          IN /\ ~r.fault
             /\ r.ret = call.ret
             /\ r.dest = call.dest
             /\ getReadableByteCount(RB) = getReadableByteCount(call.pre)
             /\ getWritableByteCount(RB) = getWritableByteCount(call.pre)
             /\ getReadableByteCount(WithCursors(RB, r.live))
                    = getReadableByteCount(call.pre)
             /\ getWritableByteCount(WithCursors(RB, r.live))
                    = getWritableByteCount(call.pre)

\* A peek at an offset has returned bytes from a buffer whose readable bytes
\* wrap around the end of the array.
C15_Witness ==
    /\ Returned("peekBytesAt")
    /\ fault = "none"
    /\ call.where > 0
    /\ call.ret > 0
    /\ call.pre.read > 0
    /\ call.pre.read + call.where + call.ret > size

\* C16: from every reachable state and for every count, discardBytes(count)
\* returns what readBytes(destination, count) would return from that state
\* and leaves the read and write cursors readBytes would leave.
C16_DiscardAsRead ==
    Returned("discardBytes") =>
        LET r == readBytes(call.pre, FreshDest(call.count), call.count)
        IN /\ fault = "none"
           /\ call.ret = r.ret
           /\ read = r.live.read
           /\ write = r.live.write

\* The array holding the count consecutive values from first on.
Iota(first, count) == [i \in 0 .. (count - 1) |-> first + i]

\* C17: with capacity 100, writing the bytes 0..99 returns 100 and the buffer
\* is full; writing 1 more byte returns 0; reading k bytes (30 in the claim)
\* returns k with the values 0..k-1 and leaves 100 - k readable and k
\* writable; writing k further distinct bytes returns k and the buffer is full
\* again; reading 100 returns 100 bytes, the remaining 100 - k original bytes
\* followed by the k new ones, and the buffer is then empty.
C17_FillDrainRefill ==
    /\ pc = 1 =>
          /\ call.ret = ScenarioSize
          /\ isFull(RB)
    /\ pc = 2 =>
          /\ call.ret = 0
          /\ isFull(RB)
          /\ RB = call.pre
    /\ pc = 3 =>
          /\ call.ret = call.count
          /\ call.dest = Iota(0, call.count)
          /\ getReadableByteCount(RB) = ScenarioSize - call.count
          /\ getWritableByteCount(RB) = call.count
    /\ pc = 4 =>
          /\ call.ret = call.count
          /\ Len(written) = ScenarioSize + call.count
          /\ isFull(RB)
    /\ pc = 5 =>
          /\ call.ret = ScenarioSize
          /\ call.dest = Iota(Len(written) - ScenarioSize, ScenarioSize)
          /\ readOut = written
          /\ isEmpty(RB)
          /\ getReadableByteCount(RB) = 0

\* The run of the claim is over: 30 bytes were read and 30 written in the
\* middle, and the last read has returned the 70 and the 30.
C17_Witness ==
    /\ pc = 5
    /\ size = 100
    /\ Len(written) = 130
    /\ call.ret = 100
    /\ call.dest[69] = 99
    /\ call.dest[70] = 100

\* C18: a transfer is short only at the boundary: when writeBytes returns
\* less than the count asked for, the buffer is full after the call; when
\* readBytes or discardBytes returns less than the count asked for, the
\* buffer is empty after the call.
C18_ShortAtBoundary ==
    /\ (Returned("writeBytes") /\ call.ret < call.count) => isFull(RB)
    /\ (call.op \in {"readBytes", "discardBytes"} /\ fault = "none"
          /\ call.ret < call.count) => isEmpty(RB)

\* A read asked for more bytes than there were and got bytes from both sides
\* of the end of the array.
C18_Witness ==
    /\ Returned("readBytes")
    /\ call.ret < call.count
    /\ call.pre.read > 0
    /\ call.pre.read + call.ret > size
    /\ isEmpty(RB)

\* The abstract bounded FIFO: a byte sequence q of at most cap bytes.  Each
\* operation yields the sequence after it, the count it returns and the bytes
\* it hands out.
AbsWrite(q, cap, src, count) ==
    LET n == Min(count, cap - Len(q))
    IN [q |-> q \o Prefix(src, n), ret |-> n, bytes |-> << >>]

AbsRead(q, count) ==
    LET n == Min(count, Len(q))
    IN [q |-> Drop(q, n), ret |-> n, bytes |-> Take(q, n)]

AbsDiscard(q, count) ==
    LET n == Min(count, Len(q))
    IN [q |-> Drop(q, n), ret |-> n, bytes |-> << >>]

AbsPeekAt(q, count, where) ==
    LET rest == Drop(q, where)
        n    == IF where > Len(q) THEN 0 ELSE Min(count, Len(rest))
    IN [q |-> q, ret |-> n, bytes |-> Take(rest, n)]

AbsClear(q) == [q |-> << >>, ret |-> 0, bytes |-> << >>]

\* The source the caller offered to the writeBytes that has just returned.
CallSource ==
    [i \in 0 .. (call.count - 1) |->
        (next + NumBytes - call.ret + i) % NumBytes]

\* What the abstract FIFO does on the call that has just returned.
AbsCall ==
    IF call.op = "writeBytes"
    THEN AbsWrite(call.fifo0, size, CallSource, call.count)
    ELSE IF call.op = "readBytes" THEN AbsRead(call.fifo0, call.count)
    ELSE IF call.op = "discardBytes" THEN AbsDiscard(call.fifo0, call.count)
    ELSE IF call.op = "peekBytes" THEN AbsPeekAt(call.fifo0, call.count, 0)
    ELSE IF call.op = "peekBytesAt"
    THEN AbsPeekAt(call.fifo0, call.count, call.where)
    ELSE AbsClear(call.fifo0)

\* C19: run side by side from construction over any sequence of calls, the
\* buffer and an abstract bounded FIFO agree: the readable bytes at the
\* indices (read + i) mod C are the abstract sequence, isEmpty, isFull and
\* the two counts are what its length says, and every call returns the count
\* and hands out the bytes the abstract operation does.
C19_BoundedFifo ==
    /\ Queue(RB) = fifo
    /\ isEmpty(RB) <=> Len(fifo) = 0
    /\ isFull(RB) <=> Len(fifo) = size
    /\ getReadableByteCount(RB) = Len(fifo)
    /\ getWritableByteCount(RB) = size - Len(fifo)
    /\ call.op # "none" =>
          /\ fault = "none"
          /\ call.ret = AbsCall.ret
          /\ fifo = AbsCall.q
          /\ Prefix(call.dest, call.ret) = AbsCall.bytes

\* C20: only writeBytes modifies the backing array: clear(), readBytes,
\* discardBytes, peekBytes and peekBytesAt leave every byte of the caller's
\* buffer as it was, whatever they return.
C20_ArrayFrame ==
    call.op \in {"clear", "readBytes", "discardBytes", "peekBytes",
                 "peekBytesAt"} =>
        /\ buffer = call.pre.buffer
        /\ ~call.oob

\* A discard has emptied a buffer that was full of written bytes.
C20_Witness ==
    /\ Returned("discardBytes")
    /\ fault = "none"
    /\ isFull(call.pre)
    /\ isEmpty(RB)
    /\ size > 1
    /\ \A i \in DOMAIN buffer : buffer[i] # Stale

\* C21: in a build with assertions, constructing a RingBuffer with a null
\* buffer pointer or with size 0 fails an assertion in the constructor,
\* before any method has run; constructing it with a real pointer and a size
\* of at least 1 fails none, and leaves a valid object.  A build without
\* assertions raises none.
C21_CtorAsserts ==
    call.op = "RingBuffer" =>
        /\ ~call.ndebug => (fault = "assert" <=> (call.null \/ size = 0))
        /\ call.ndebug => fault = "none"
        /\ (~call.null /\ size >= 1) =>
              /\ fault = "none"
              /\ AssertValid(RB)
              /\ isEmpty(RB)
        /\ fifo = << >>
        /\ next = 0

\* A buffer of size 0 over real memory has been constructed and the
\* assertion has stopped the process.
C21_Witness ==
    /\ call.op = "RingBuffer"
    /\ ~call.null
    /\ ~call.ndebug
    /\ size = 0
    /\ fault = "assert"

\* No call is in flight.
Quiescent == writer.pc = "idle" /\ reader.pc = "idle"

\* C22: there is no synchronization inside.  As long as every writeBytes
\* and readBytes call has had the object to itself, the cursors satisfy the
\* assertions between calls, the readable bytes are the queued bytes and
\* every read has handed out the oldest ones; once a call has run while
\* another was in flight this is no longer so (the witness).
C22_ExclusiveAccess ==
    ~overlap =>
        /\ fault = "none"
        /\ Quiescent =>
              /\ AssertValid(RB)
              /\ Queue(RB) = fifo
              /\ reader.ok

\* A writeBytes and a readBytes have run interleaved, both have returned,
\* and the cursors they leave break the assertions.
C22_Witness ==
    /\ overlap
    /\ Quiescent
    /\ fault = "none"
    /\ ~AssertValid(RB)

\* A writeBytes call has returned that started with read < write < C and was
\* given at least the C - write bytes that fit before the end of the array.
FilledToEnd ==
    /\ Returned("writeBytes")
    /\ call.pre.read < call.pre.write
    /\ call.pre.write < size
    /\ call.count >= size - call.pre.write

\* What the call of FilledToEnd still had to write after the end of the
\* array, and what of it fits before the read cursor.
RestAfterEnd == call.count - (size - call.pre.write)

HeadWritten == Min(RestAfterEnd, call.pre.read)

\* C23: a writeBytes that starts with read < write < C and fills exactly to
\* the end of the array: with read > 0 the write cursor wraps to 0 and the
\* same call goes on into [0, read), ending with write = C (full) if it
\* reaches read; with read = 0 the write cursor stays at C (full) and no
\* further byte is written.
C23_WriteWraps ==
    FilledToEnd =>
        /\ read = call.pre.read
        /\ \A i \in call.pre.write .. (size - 1) :
               buffer[i] = CallSource[i - call.pre.write]
        /\ call.pre.read > 0 =>
              /\ call.ret = (size - call.pre.write) + HeadWritten
              /\ write = IF HeadWritten = call.pre.read THEN size
                         ELSE HeadWritten
              /\ \A i \in 0 .. (HeadWritten - 1) :
                     buffer[i] = CallSource[(size - call.pre.write) + i]
              /\ \A i \in HeadWritten .. (call.pre.write - 1) :
                     buffer[i] = call.pre.buffer[i]
        /\ call.pre.read = 0 =>
              /\ call.ret = size - call.pre.write
              /\ write = size
              /\ \A i \in 0 .. (call.pre.write - 1) :
                     buffer[i] = call.pre.buffer[i]

\* The call went on at index 0 after the wrap and reached the read cursor.
C23_Witness ==
    /\ FilledToEnd
    /\ call.pre.read > 0
    /\ HeadWritten >= 1
    /\ call.ret = (size - call.pre.write) + HeadWritten
    /\ write = size

\* The write cursor as the first branch of _readBytes sees it: write = read
\* for a full buffer.
NormalWrite(rb) == IF rb.write = rb.size THEN rb.read ELSE rb.write

\* A call of op has started with readable bytes up to the end of the array
\* and was asked for at least the C - read bytes before the end.
DrainedToEnd(op) ==
    /\ call.op = op
    /\ call.pre.read < size
    /\ call.pre.read > call.pre.write \/ call.pre.write = size
    /\ call.count >= size - call.pre.read

\* What the call of DrainedToEnd takes from the beginning of the array.
HeadRead ==
    Min(call.count - (size - call.pre.read), NormalWrite(call.pre))

\* The outcome C24 states for the call that has drained to the end.
WrapsAndContinues ==
    /\ fault = "none"
    /\ NormalWrite(call.pre) > 0 =>
          /\ call.ret = (size - call.pre.read) + HeadRead
          /\ IF HeadRead = NormalWrite(call.pre)
             THEN read = size /\ write = 0
             ELSE read = HeadRead /\ write = NormalWrite(call.pre)
    /\ NormalWrite(call.pre) = 0 =>
          /\ call.ret = size - call.pre.read
          /\ read = size
          /\ write = 0

\* C24: a readBytes or discardBytes that drains exactly to the end of the
\* array: with the (full-normalised) write cursor > 0 the read cursor wraps
\* to 0 and the same call goes on draining [0, write); with the write cursor
\* at 0 there is no wrap and the result is the empty encoding read = C,
\* write = 0.
C24_ReadWraps ==
    /\ DrainedToEnd("readBytes") => WrapsAndContinues
    /\ DrainedToEnd("discardBytes") => WrapsAndContinues

\* The readBytes half of C24.
C24_ReadBytesWraps == DrainedToEnd("readBytes") => WrapsAndContinues

\* A readBytes or discardBytes call has returned with the last readable
\* byte taken.
TookLast ==
    /\ call.op \in {"readBytes", "discardBytes"}
    /\ fault = "none"
    /\ call.ret >= 1
    /\ call.ret = getReadableByteCount(call.pre)

\* C25: whenever readBytes or discardBytes removes the last readable byte,
\* from whatever layout, the cursors end as read = C and write = 0, which is
\* what clear() produces; no other pair of cursors stands for empty.
C25_EmptyEncoding ==
    /\ TookLast =>
          /\ read = size
          /\ write = 0
          /\ Cursors(RB) = clear(call.pre)
    /\ isEmpty(RB) <=> (read = size /\ write = 0)
    /\ getReadableByteCount(RB) = 0 <=> (read = size /\ write = 0)

\* The last byte was taken from the beginning of the array after a wrap.
C25_Witness ==
    /\ TookLast
    /\ call.pre.read > 0
    /\ call.pre.read + call.ret > size
    /\ read = size
    /\ write = 0

\* A writeBytes call has returned that found the buffer empty and stored at
\* least one byte.
WroteIntoEmpty ==
    /\ Returned("writeBytes")
    /\ isEmpty(call.pre)
    /\ call.ret >= 1

\* C26: a writeBytes that transfers n >= 1 bytes into an empty buffer stores
\* them at the indices 0 .. n-1 and leaves read = 0 and write = n (n < C) or
\* write = C (n = C); read is never C while the buffer holds data.
C26_WriteIntoEmpty ==
    /\ WroteIntoEmpty =>
          /\ call.ret = Min(call.count, size)
          /\ \A i \in 0 .. (call.ret - 1) : buffer[i] = CallSource[i]
          /\ \A i \in call.ret .. (size - 1) : buffer[i] = call.pre.buffer[i]
          /\ read = 0
          /\ write = call.ret
          /\ Queue(RB) = Prefix(CallSource, call.ret)
    /\ getReadableByteCount(RB) >= 1 => read < size
    /\ ~isEmpty(RB) => read < size

\* Fewer bytes than the capacity went into an empty buffer.
C26_Witness ==
    /\ WroteIntoEmpty
    /\ call.ret < size
    /\ read = 0
    /\ write = call.ret

\* The bytes the spans of one pass cover.
RECURSIVE SpanSum(_)
SpanSum(spans) ==
    IF spans = << >> THEN 0
    ELSE Head(spans).n + SpanSum(Tail(spans))

\* Span sp lies in an array of C bytes and in a source or destination of
\* count bytes.
SpanInside(sp, count) ==
    \A i \in 0 .. (sp.n - 1) :
        /\ sp.at + i \in 0 .. (size - 1)
        /\ sp.off + i \in 0 .. (count - 1)

\* The count that pass k of the call was asked for: the offset pass of
\* peekBytesAt is asked for where bytes.
PassCount(k) ==
    IF call.op = "peekBytesAt" /\ k = 1 THEN call.where ELSE call.count

\* The spans of the pass that transfers the caller's bytes; none if
\* peekBytesAt has given up after its offset pass.
TransferPass ==
    IF call.op = "peekBytesAt"
    THEN IF Len(call.passes) = 2 THEN call.passes[2] ELSE << >>
    ELSE call.passes[1]

Transfers ==
    call.op \in {"writeBytes", "readBytes", "discardBytes", "peekBytes",
                 "peekBytesAt"}

\* Every pass has at most two spans, all inside the backing array and the
\* caller's bytes, and the spans of the transfer add up to the count
\* returned.
SpansInBounds ==
    /\ ~call.oob
    /\ \A k \in 1 .. Len(call.passes) :
           /\ Len(call.passes[k]) <= 2
           /\ \A j \in 1 .. Len(call.passes[k]) :
                  SpanInside(call.passes[k][j], PassCount(k))
    /\ SpanSum(TransferPass) = call.ret

\* C27: every call of writeBytes, readBytes, discardBytes, peekBytes and
\* peekBytesAt makes at most two contiguous copies per pass of the transfer
\* primitive; each copy touches only indices of the backing array in [0, C)
\* and offsets of the source or destination in [0, count), and the lengths
\* copied add up to the count returned.
C27_TwoSpans ==
    Transfers => (fault = "none" /\ SpansInBounds)

\* C27 for the calls that do not copy through the advanced null pointer.
C27_TwoSpansReturned ==
    (Transfers /\ fault = "none") => SpansInBounds

\* The object rb after a call that has left result r.
After(rb, r) ==
    [rb EXCEPT !.read = r.live.read, !.write = r.live.write,
               !.buffer = r.buffer]

\* The bytes a read with result r has handed out.
Got(r) == Prefix(r.dest, r.ret)

\* readBytes(a) then readBytes(b) against one readBytes(a + b): r1 and r2
\* are the results of the two calls, r12 that of the single call.
SameRead(rb, r1, r2, r12) ==
    /\ Got(r1) \o Got(r2) = Got(r12)
    /\ r1.ret + r2.ret = r12.ret
    /\ getReadableByteCount(After(After(rb, r1), r2))
         = getReadableByteCount(After(rb, r12))
    /\ getWritableByteCount(After(After(rb, r1), r2))
         = getWritableByteCount(After(rb, r12))

SplitRead(rb, a, b) ==
    SameRead(rb,
             readBytes(rb, FreshDest(a), a),
             readBytes(After(rb, readBytes(rb, FreshDest(a), a)),
                       FreshDest(b), b),
             readBytes(rb, FreshDest(a + b), a + b))

\* The b bytes of source src from offset a on.
Slice(src, a, b) == [i \in 0 .. (b - 1) |-> src[a + i]]

\* writeBytes of the first a bytes then of the next b bytes against one
\* writeBytes of the a + b bytes.
SameWrite(rb, w1, w2, w12) ==
    /\ Queue(After(After(rb, WriteOnLive(w1)), WriteOnLive(w2)))
         = Queue(After(rb, WriteOnLive(w12)))
    /\ w1.ret + w2.ret = w12.ret

SplitWrite(rb, src, a, b) ==
    SameWrite(rb,
              writeBytes(rb, Slice(src, 0, a), a),
              writeBytes(After(rb, WriteOnLive(writeBytes(rb, Slice(src, 0, a),
                                                          a))),
                         Slice(src, a, b), b),
              writeBytes(rb, src, a + b))

\* C28: splitting a transfer does not change its outcome.  From any
\* reachable state readBytes(a) followed by readBytes(b) hands out the same
\* bytes in all, returns the same total and leaves the same readable and
\* writable counts as one readBytes(a + b); writeBytes of the first a bytes
\* of a source followed by writeBytes of its next b bytes leaves the same
\* queued bytes and accepts the same total as one writeBytes of the a + b
\* bytes.  The states between two calls are all the states an object is
\* in.
C28_SplitTransfer ==
    Idle =>
        \A a \in Counts(size), b \in Counts(size) :
            /\ SplitRead(RB, a, b)
            /\ SplitWrite(RB, Source(a + b), a, b)

\* The queued bytes lie on both sides of the end of the array, so that a
\* read of all of them split in two, and the single read as well, wrap.
C28_Witness ==
    /\ Idle
    /\ read > 0
    /\ isFull(RB)
    /\ readBytes(RB, FreshDest(size), size).ret = size
    /\ readBytes(After(RB, readBytes(RB, FreshDest(1), 1)),
                 FreshDest(size - 1), size - 1).ret = size - 1

\* A writeBytes or a readBytes of count bytes transfers at least one byte.
Moves(rb, count) ==
    \/ writeBytes(rb, Source(count), count).ret >= 1
    \/ readBytes(rb, FreshDest(count), count).ret >= 1

\* Whatever count >= 1 is asked for, one of the two calls transfers.
Unstuck == \A count \in Counts(size) \ {0} : Moves(RB, count)

\* C29: the queue never gets stuck.  In every reachable state a writeBytes
\* or a readBytes with a count >= 1 transfers at least one byte, so with a
\* producer that keeps offering the rest of a finite stream and a consumer
\* that keeps reading, both weakly fair and with atomic calls, every byte of
\* the stream eventually reaches the consumer, in order.
C29_NeverStuck ==
    /\ []Unstuck
    /\ [](IsPrefixOf(readOut, written) /\ IsPrefixOf(written, Stream))
    /\ <>[](readOut = Stream)

\* The consumer has the whole stream, the last bytes taken from the
\* beginning of the array after a wrap.
C29_Witness ==
    /\ readOut = Stream
    /\ isEmpty(RB)
    /\ call.op = "readBytes"
    /\ call.pre.read > 0
    /\ call.pre.read + call.ret > size

\* C30: in every reachable state and for every count asked for, none of
\* the unsigned subtractions wraps around: _size - _write, _read - _write
\* and count - n in writeBytes, _size - read, write - read and count - n in
\* _readBytes have a value in [0, C] or [0, count] (the call record's uf is
\* set otherwise), the subtractions of the two count queries have a value
\* in [0, C], and no cursor is advanced past C.
C30_NoUnderflow ==
    /\ Transfers => ~call.uf
    /\ Transfers => \A k \in 1 .. Len(call.passes) :
                        \A j \in 1 .. Len(call.passes[k]) :
                            /\ call.passes[k][j].n <= size
                            /\ call.passes[k][j].n <= PassCount(k)
    /\ getReadableByteCount(RB) \in 0 .. size
    /\ getWritableByteCount(RB) \in 0 .. size
    /\ UAdd(write, size) = write + size
    /\ UAdd(read, size) = read + size
    /\ read <= size
    /\ write <= size
    /\ call.op \in {"peekBytes", "peekBytesAt"} =>
          /\ call.scratch.read <= size
          /\ call.scratch.write <= size

\* A write went up to the end of the array and on from index 0 to the read
\* cursor: each of its subtractions came out as 0 or as the distance to the
\* limit, and the counts are taken on a full buffer whose data wraps.
C30_Witness ==
    /\ Returned("writeBytes")
    /\ Len(call.passes[1]) = 2
    /\ call.passes[1][1].n >= 1
    /\ call.passes[1][2].n >= 1
    /\ ~call.uf
    /\ isFull(RB)
    /\ read > 0

\* The pass _readBytes(destination, count, read, write) on object rb with
\* the cursor pair c, and the same pass on an object whose own cursors are
\* c.
PassOn(rb, c, count) ==
    ReadBytesPrim(rb, FreshDest(count), FALSE, count, c.read, c.write, FALSE)

\* What a pass with result r hands back to its caller: the pair, the count
\* returned, the destination and the array.
Outcome(r) ==
    [read |-> r.read, write |-> r.write, ret |-> r.ret, dest |-> r.dest,
     buffer |-> r.buffer, fault |-> r.fault]

PairOnly(rb, c, count) ==
    Outcome(PassOn(rb, c, count))
        = Outcome(PassOn(WithCursors(rb, c), c, count))

\* The offset pass of peekBytesAt(destination, count, where) on rb.
OffsetPass(rb, where, ub) ==
    ReadBytesPrim(rb, NullDest, TRUE, where, rb.read, rb.write, ub)

\* The pair passed on encodes empty: nothing is returned, nothing copied,
\* and the pair stays.
NothingFromEmptyPair(rb, c, count) ==
    (c.read = rb.size /\ c.write = 0) =>
        /\ PassOn(rb, c, count).ret = 0
        /\ PassOn(rb, c, count).dest = FreshDest(count)
        /\ PassOn(rb, c, count).buffer = rb.buffer
        /\ Cursors(PassOn(rb, c, count)) = c
        /\ SpanSum(PassOn(rb, c, count).spans) = 0

\* What C31 says of the pass that follows the offset pass skip.
AfterOffset(rb, skip, where, count) ==
    (~skip.fault /\ skip.ret = where) =>
        /\ PairOnly(rb, Cursors(skip), count)
        /\ NothingFromEmptyPair(rb, Cursors(skip), count)

\* peekBytesAt was asked for bytes at the offset that equals the readable
\* count of a buffer that holds bytes, and has returned.
PeekedAtEnd ==
    /\ Returned("peekBytesAt")
    /\ fault = "none"
    /\ call.count >= 1
    /\ call.where >= 1
    /\ call.where = getReadableByteCount(call.pre)

\* C31: the result of the read primitive depends only on the cursor pair it
\* is handed, although its early exit tests isEmpty() on the object's own
\* cursors: in the second pass of peekBytesAt with the offset equal to the
\* readable count the pair encodes empty (read = C, write = 0) while the
\* buffer is not empty, and the pass returns 0, copies nothing and leaves
\* the pair as it is.
C31_PassedPairOnly ==
    /\ Idle =>
          \A where \in Counts(size), count \in Counts(size), ub \in BOOLEAN :
              AfterOffset(RB, OffsetPass(RB, where, ub), where, count)
    /\ PeekedAtEnd =>
          /\ ~isEmpty(call.pre)
          /\ Len(call.passes) = 2
          /\ SpanSum(call.passes[2]) = 0
          /\ call.scratch = clear(call.pre)
          /\ call.ret = 0
          /\ call.dest = FreshDest(call.count)
          /\ RB = call.pre

\* The offset pass went over the end of the array and drained the cursor
\* copies; the second pass ran on the empty pair.
C31_Witness ==
    /\ PeekedAtEnd
    /\ call.pre.read > 0
    /\ call.pre.read + call.where > size
    /\ Len(call.passes) = 2
    /\ call.scratch = clear(call.pre)
    /\ call.ret = 0

====
